---- MODULE Spec2Model ----
(***************************************************************************)
(* A model of the Hashlife engine: the canonical (interned) quadtree of    *)
(* engine/QuadTree.ts and the memoised evaluator of engine/Hashlife.ts.    *)
(*                                                                         *)
(* A node instance is an address into the heap `nodes` (JavaScript object  *)
(* identity); its `id` is a field, drawn from the counter nextId.  Child   *)
(* links are addresses, Null for the absent children of a leaf.  The       *)
(* interner nodeCache maps a structural key to an address.  The key        *)
(* "a:b:c:d" built by makeKey from four integer ids is the tuple           *)
(* <<a,b,c,d>> (ids are positive integers, so the text is read back        *)
(* unambiguously); the three literal keys 'leaf', 'alive' and 'dead' are   *)
(* tuples no id tuple can equal.                                           *)
(***************************************************************************)
EXTENDS Integers, Sequences, FiniteSets, TLC

\* ---------------------------------------------------------------- bounds
MaxNodes == 4
MaxLevel == 3
MaxCoord == 2
MaxRoots == 2

MaxLive == 4
MaxAdvLive == 3

VARIABLES nodes, nodeCache, emptyNodeCache, nextId, cache, last

vars == <<nodes, nodeCache, emptyNodeCache, nextId, cache, last>>

\* ---------------------------------------------------------------- basics
Null == 0

KeyLeaf == <<0, 0, 0, 0>>
KeyAlive == <<-1, -1, -1, -1>>
KeyDead == <<-2, -2, -2, -2>>

EmptyMap == [k \in {} |-> Null]

MapSet(m, k, v) == [x \in (DOMAIN m) \cup {k} |-> IF x = k THEN v ELSE m[x]]

Pow2(n) == 2 ^ n

\* The mutable state of the two modules, threaded through every call.
Store(n, nc, ec, id, c) ==
    [nodes |-> n, nodeCache |-> nc, emptyNodeCache |-> ec, nextId |-> id, cache |-> c]

Cur == Store(nodes, nodeCache, emptyNodeCache, nextId, cache)

\* Outcome of a call: the store it leaves, the node it returns, or a throw.
Ok(S, r) == [S |-> S, r |-> r, ok |-> TRUE]
Err(S) == [S |-> S, r |-> Null, ok |-> FALSE]

Addrs(S) == 1 .. Len(S.nodes)

\* ---------------------------------------------------------------- QuadTree
makeKey(S, nw, ne, sw, se) ==
    IF nw = Null \/ ne = Null \/ sw = Null \/ se = Null
    THEN KeyLeaf
    ELSE <<S.nodes[nw].id, S.nodes[ne].id, S.nodes[sw].id, S.nodes[se].id>>

\* The population of a fresh node; reading .population of null throws.
SumPopulation(S, nw, ne, sw, se) ==
    S.nodes[nw].population + S.nodes[ne].population
        + S.nodes[sw].population + S.nodes[se].population

NewNode(S, key, node) ==
    Ok([S EXCEPT !.nodes = Append(S.nodes, node),
                 !.nodeCache = MapSet(S.nodeCache, key, Len(S.nodes) + 1),
                 !.nextId = S.nextId + 1],
       Len(S.nodes) + 1)

\* create without the interner lookup: every call builds a node.
create_NoLookup(S, level, nw, ne, sw, se) ==
    IF nw = Null THEN Err(S)
    ELSE IF S.nodes[nw].level # level - 1 THEN Err(S)
    ELSE IF ne = Null \/ sw = Null \/ se = Null THEN Err(S)
    ELSE NewNode(S, makeKey(S, nw, ne, sw, se),
            [level |-> level, nw |-> nw, ne |-> ne, sw |-> sw, se |-> se,
             population |-> SumPopulation(S, nw, ne, sw, se),
             id |-> S.nextId])

create(S, level, nw, ne, sw, se) ==
    IF nw = Null THEN Err(S)
    ELSE IF S.nodes[nw].level # level - 1 THEN Err(S)
    ELSE LET key == makeKey(S, nw, ne, sw, se)
         IN  IF key \in DOMAIN S.nodeCache THEN Ok(S, S.nodeCache[key])
             ELSE IF ne = Null \/ sw = Null \/ se = Null THEN Err(S)
             ELSE NewNode(S, key,
                     [level |-> level, nw |-> nw, ne |-> ne, sw |-> sw, se |-> se,
                      population |-> SumPopulation(S, nw, ne, sw, se),
                      id |-> S.nextId])

\* createLeaf building a new leaf on every call.
createLeaf_NoLookup(S, alive) ==
    NewNode(S, IF alive THEN KeyAlive ELSE KeyDead,
        [level |-> 0, nw |-> Null, ne |-> Null, sw |-> Null, se |-> Null,
         population |-> IF alive THEN 1 ELSE 0,
         id |-> S.nextId])

createLeaf(S, alive) ==
    LET key == IF alive THEN KeyAlive ELSE KeyDead
    IN  IF key \in DOMAIN S.nodeCache THEN Ok(S, S.nodeCache[key])
        ELSE NewNode(S, key,
                [level |-> 0, nw |-> Null, ne |-> Null, sw |-> Null, se |-> Null,
                 population |-> IF alive THEN 1 ELSE 0,
                 id |-> S.nextId])

\* empty(level) for level < 0 recurses without end: the call stack overflows.
RECURSIVE empty(_, _)
empty(S, level) ==
    IF level < 0 THEN Err(S)
    ELSE IF level = 0 THEN createLeaf(S, FALSE)
    ELSE IF level \in DOMAIN S.emptyNodeCache THEN Ok(S, S.emptyNodeCache[level])
    ELSE LET c == empty(S, level - 1)
             n == create(c.S, level, c.r, c.r, c.r, c.r)
         IN  IF ~c.ok THEN c
             ELSE IF ~n.ok THEN n
             ELSE Ok([n.S EXCEPT !.emptyNodeCache = MapSet(n.S.emptyNodeCache, level, n.r)],
                     n.r)

RECURSIVE getCell(_, _, _, _)
getCell(S, node, x, y) ==
    LET n == S.nodes[node]
        size == Pow2(n.level)
        half == size \div 2
    IN  IF n.level = 0 THEN n.population > 0
        ELSE IF x < 0 \/ x >= size \/ y < 0 \/ y >= size THEN FALSE
        ELSE IF x < half
             THEN IF y < half THEN getCell(S, n.nw, x, y)
                  ELSE getCell(S, n.sw, x, y - half)
             ELSE IF y < half THEN getCell(S, n.ne, x - half, y)
                  ELSE getCell(S, n.se, x - half, y - half)

RECURSIVE setCell(_, _, _, _, _)
\* setCell writing the new child into the node it was given.
setCell_InPlace(S, node, x, y, alive) ==
    LET n == S.nodes[node]
        size == Pow2(n.level)
        half == size \div 2
    IN  IF n.level = 0 THEN createLeaf(S, alive)
        ELSE IF x < 0 \/ x >= size \/ y < 0 \/ y >= size THEN Err(S)
        ELSE LET q == IF x < half THEN (IF y < half THEN "nw" ELSE "sw")
                      ELSE (IF y < half THEN "ne" ELSE "se")
                 c == CASE q = "nw" -> setCell(S, n.nw, x, y, alive)
                        [] q = "sw" -> setCell(S, n.sw, x, y - half, alive)
                        [] q = "ne" -> setCell(S, n.ne, x - half, y, alive)
                        [] q = "se" -> setCell(S, n.se, x - half, y - half, alive)
             IN  IF ~c.ok THEN c
                 ELSE Ok([c.S EXCEPT !.nodes[node][q] = c.r], node)

setCell(S, node, x, y, alive) ==
    LET n == S.nodes[node]
        size == Pow2(n.level)
        half == size \div 2
    IN  IF n.level = 0 THEN createLeaf(S, alive)
        ELSE IF x < 0 \/ x >= size \/ y < 0 \/ y >= size THEN Err(S)
        ELSE LET q == IF x < half THEN (IF y < half THEN "nw" ELSE "sw")
                      ELSE (IF y < half THEN "ne" ELSE "se")
                 c == CASE q = "nw" -> setCell(S, n.nw, x, y, alive)
                        [] q = "sw" -> setCell(S, n.sw, x, y - half, alive)
                        [] q = "ne" -> setCell(S, n.ne, x - half, y, alive)
                        [] q = "se" -> setCell(S, n.se, x - half, y - half, alive)
                 nw == IF q = "nw" THEN c.r ELSE n.nw
                 ne == IF q = "ne" THEN c.r ELSE n.ne
                 sw == IF q = "sw" THEN c.r ELSE n.sw
                 se == IF q = "se" THEN c.r ELSE n.se
                 T == c.S
             IN  IF ~c.ok THEN c
                 ELSE IF /\ T.nodes[nw].id = T.nodes[n.nw].id
                         /\ T.nodes[ne].id = T.nodes[n.ne].id
                         /\ T.nodes[sw].id = T.nodes[n.sw].id
                         /\ T.nodes[se].id = T.nodes[n.se].id
                      THEN Ok(T, node)
                      ELSE create(T, n.level, nw, ne, sw, se)

\* centeredHorizontal taking the east node's outer quadrants.
centeredHorizontal_EastOuter(S, w, e) ==
    IF w = Null \/ e = Null THEN Err(S)
    ELSE create(S, S.nodes[w].level,
                S.nodes[w].ne, S.nodes[e].ne, S.nodes[w].se, S.nodes[e].se)

\* Reading a field of null throws before create is entered.
centeredHorizontal(S, w, e) ==
    IF w = Null \/ e = Null THEN Err(S)
    ELSE create(S, S.nodes[w].level,
                S.nodes[w].ne, S.nodes[e].nw, S.nodes[w].se, S.nodes[e].sw)

\* centeredVertical taking the south node's nw quadrant twice.
centeredVertical_NwTwice(S, n, s) ==
    IF n = Null \/ s = Null THEN Err(S)
    ELSE create(S, S.nodes[n].level,
                S.nodes[n].sw, S.nodes[n].se, S.nodes[s].nw, S.nodes[s].nw)

centeredVertical(S, n, s) ==
    IF n = Null \/ s = Null THEN Err(S)
    ELSE create(S, S.nodes[n].level,
                S.nodes[n].sw, S.nodes[n].se, S.nodes[s].nw, S.nodes[s].ne)

\* centeredSubnode taking the outer corner of the se node.
centeredSubnode_SeOuter(S, nw, ne, sw, se) ==
    IF nw = Null \/ ne = Null \/ sw = Null \/ se = Null THEN Err(S)
    ELSE create(S, S.nodes[nw].level,
                S.nodes[nw].se, S.nodes[ne].sw, S.nodes[sw].ne, S.nodes[se].se)

centeredSubnode(S, nw, ne, sw, se) ==
    IF nw = Null \/ ne = Null \/ sw = Null \/ se = Null THEN Err(S)
    ELSE create(S, S.nodes[nw].level,
                S.nodes[nw].se, S.nodes[ne].sw, S.nodes[sw].ne, S.nodes[se].nw)

\* expand placing the node's nw child in the outer corner of the new nw.
expand_NwOuter(S, node) ==
    LET n == S.nodes[node]
        e == empty(S, n.level - 1)
        nw == IF e.ok THEN create(e.S, n.level, n.nw, e.r, e.r, e.r) ELSE e
        ne == IF nw.ok THEN create(nw.S, n.level, e.r, e.r, n.ne, e.r) ELSE nw
        sw == IF ne.ok THEN create(ne.S, n.level, e.r, n.sw, e.r, e.r) ELSE ne
        se == IF sw.ok THEN create(sw.S, n.level, n.se, e.r, e.r, e.r) ELSE sw
    IN  IF se.ok THEN create(se.S, n.level + 1, nw.r, ne.r, sw.r, se.r) ELSE se

expand(S, node) ==
    LET n == S.nodes[node]
        e == empty(S, n.level - 1)
        nw == IF e.ok THEN create(e.S, n.level, e.r, e.r, e.r, n.nw) ELSE e
        ne == IF nw.ok THEN create(nw.S, n.level, e.r, e.r, n.ne, e.r) ELSE nw
        sw == IF ne.ok THEN create(ne.S, n.level, e.r, n.sw, e.r, e.r) ELSE ne
        se == IF sw.ok THEN create(sw.S, n.level, n.se, e.r, e.r, e.r) ELSE sw
    IN  IF se.ok THEN create(se.S, n.level + 1, nw.r, ne.r, sw.r, se.r) ELSE se

\* visit filing every leaf under the key of the dead leaf.
RECURSIVE visit_LeafKeyDead(_, _, _)
visit_LeafKeyDead(S, acc, node) ==
    IF node = Null THEN acc
    ELSE LET n == S.nodes[node]
         IN  IF n.id \in acc.visited THEN acc
             ELSE LET key == IF n.level = 0 THEN KeyDead
                             ELSE makeKey(S, n.nw, n.ne, n.sw, n.se)
                      a0 == [visited |-> acc.visited \cup {n.id},
                             newCache |-> MapSet(acc.newCache, key, node)]
                  IN  IF n.level > 0
                      THEN visit_LeafKeyDead(S, visit_LeafKeyDead(S, visit_LeafKeyDead(S,
                               visit_LeafKeyDead(S, a0, n.nw), n.ne), n.sw), n.se)
                      ELSE a0

\* One call of the closure `visit` of collectGarbage: acc is (visited, newCache).
RECURSIVE visit(_, _, _)
visit(S, acc, node) ==
    IF node = Null THEN acc
    ELSE LET n == S.nodes[node]
         IN  IF n.id \in acc.visited THEN acc
             ELSE LET key == IF n.level = 0
                             THEN (IF n.population # 0 THEN KeyAlive ELSE KeyDead)
                             ELSE makeKey(S, n.nw, n.ne, n.sw, n.se)
                      a0 == [visited |-> acc.visited \cup {n.id},
                             newCache |-> MapSet(acc.newCache, key, node)]
                  IN  IF n.level > 0
                      THEN visit(S, visit(S, visit(S, visit(S, a0, n.nw), n.ne), n.sw), n.se)
                      ELSE a0

RECURSIVE visitAll(_, _, _)
visitAll(S, acc, seq) ==
    IF seq = <<>> THEN acc
    ELSE visitAll(S, visit(S, acc, Head(seq)), Tail(seq))

\* The values of emptyNodeCache in Map iteration order.  empty(level) inserts
\* level - 1 before level, so insertion order is ascending level.
RECURSIVE emptyNodes(_, _)
emptyNodes(S, level) ==
    IF level \notin DOMAIN S.emptyNodeCache THEN <<>>
    ELSE <<S.emptyNodeCache[level]>> \o emptyNodes(S, level + 1)

\* collectGarbage handing the ids of the swept nodes out again: the counter
\* restarts after the largest id that is kept.
collectGarbage_ReuseIds(S, roots) ==
    LET a0 == [visited |-> {}, newCache |-> EmptyMap]
        a1 == visitAll(S, a0, roots)
        a2 == visitAll(S, a1, emptyNodes(S, 1))
        kept == {0} \cup a2.visited
    IN  Ok([S EXCEPT !.nodeCache = a2.newCache,
                     !.nextId = 1 + CHOOSE m \in kept : \A i \in kept : i <= m], Null)

collectGarbage(S, roots) ==
    LET a0 == [visited |-> {}, newCache |-> EmptyMap]
        a1 == visitAll(S, a0, roots)
        a2 == visitAll(S, a1, emptyNodes(S, 1))
    IN  Ok([S EXCEPT !.nodeCache = a2.newCache], Null)

\* ---------------------------------------------------------------- Hashlife
clearCache(S) == Ok([S EXCEPT !.cache = EmptyMap], Null)

\* cells[y][x] of evolveLevel2: the sixteen cells of the 4x4 node.
cellsOf(S, node) == [y \in 0 .. 3 |-> [x \in 0 .. 3 |-> getCell(S, node, x, y)]]

\* The rule with survival on two neighbours only.
evolveCell_S2(cells, x, y) ==
    LET alive == cells[y][x]
        neighbors == Cardinality({d \in (-1 .. 1) \X (-1 .. 1) :
                                    /\ d # <<0, 0>>
                                    /\ cells[y + d[2]][x + d[1]]})
    IN  IF alive THEN neighbors = 2
        ELSE neighbors = 3

evolveCell(cells, x, y) ==
    LET alive == cells[y][x]
        neighbors == Cardinality({d \in (-1 .. 1) \X (-1 .. 1) :
                                    /\ d # <<0, 0>>
                                    /\ cells[y + d[2]][x + d[1]]})
    IN  IF alive THEN neighbors = 2 \/ neighbors = 3
        ELSE neighbors = 3

evolveLevel2(S, node) ==
    LET cells == cellsOf(S, node)
        nw == createLeaf(S, evolveCell(cells, 1, 1))
        ne == createLeaf(nw.S, evolveCell(cells, 2, 1))
        sw == createLeaf(ne.S, evolveCell(cells, 1, 2))
        se == createLeaf(sw.S, evolveCell(cells, 2, 2))
    IN  create(se.S, 1, nw.r, ne.r, sw.r, se.r)

\* The statements of step between the memo lookup and the memo insert, in
\* program order: the variable assigned, the operation called, its arguments.
stepBody ==
    << <<"n01", "centeredHorizontal", <<"nw", "ne">> >>,
       <<"n10", "centeredVertical", <<"nw", "sw">> >>,
       <<"n11", "centeredSubnode", <<"nw", "ne", "sw", "se">> >>,
       <<"n12", "centeredVertical", <<"ne", "se">> >>,
       <<"n21", "centeredHorizontal", <<"sw", "se">> >>,
       <<"r00", "step", <<"nw">> >>,
       <<"r01", "step", <<"n01">> >>,
       <<"r02", "step", <<"ne">> >>,
       <<"r10", "step", <<"n10">> >>,
       <<"r11", "step", <<"n11">> >>,
       <<"r12", "step", <<"n12">> >>,
       <<"r20", "step", <<"sw">> >>,
       <<"r21", "step", <<"n21">> >>,
       <<"r22", "step", <<"se">> >>,
       <<"A", "create", <<"r00", "r01", "r10", "r11">> >>,
       <<"B", "create", <<"r01", "r02", "r11", "r12">> >>,
       <<"C", "create", <<"r10", "r11", "r20", "r21">> >>,
       <<"D", "create", <<"r11", "r12", "r21", "r22">> >>,
       <<"resA", "step", <<"A">> >>,
       <<"resB", "step", <<"B">> >>,
       <<"resC", "step", <<"C">> >>,
       <<"resD", "step", <<"D">> >>,
       <<"result", "create", <<"resA", "resB", "resC", "resD">> >> >>

\* A frame whose created nodes are at the level of the argument.
Frame_SameLevel(S, node) ==
    [S |-> S, ok |-> TRUE, level |-> S.nodes[node].level,
     v |-> [nw |-> S.nodes[node].nw, ne |-> S.nodes[node].ne,
            sw |-> S.nodes[node].sw, se |-> S.nodes[node].se]]

\* The frame of a running step: the store, whether it is still running, the
\* level of the nodes it creates, and its local variables.
Frame(S, node) ==
    [S |-> S, ok |-> TRUE, level |-> S.nodes[node].level - 1,
     v |-> [nw |-> S.nodes[node].nw, ne |-> S.nodes[node].ne,
            sw |-> S.nodes[node].sw, se |-> S.nodes[node].se]]

Assign(f, var, res) ==
    [f EXCEPT !.S = res.S, !.ok = res.ok, !.v = MapSet(f.v, var, res.r)]

RECURSIVE step(_, _)

\* One statement: var = op(args), in the frame f.
Do(f, var, op, a) ==
    Assign(f, var,
        CASE op = "centeredHorizontal" -> centeredHorizontal(f.S, f.v[a[1]], f.v[a[2]])
          [] op = "centeredVertical" -> centeredVertical(f.S, f.v[a[1]], f.v[a[2]])
          [] op = "centeredSubnode" ->
                centeredSubnode(f.S, f.v[a[1]], f.v[a[2]], f.v[a[3]], f.v[a[4]])
          [] op = "step" -> step(f.S, f.v[a[1]])
          [] op = "create" ->
                create(f.S, f.level, f.v[a[1]], f.v[a[2]], f.v[a[3]], f.v[a[4]]))

\* The statements in order; a throw ends the call with the store as it is.
RECURSIVE run(_, _)
run(f, body) ==
    IF body = <<>> \/ ~f.ok THEN f
    ELSE run(Do(f, Head(body)[1], Head(body)[2], Head(body)[3]), Tail(body))

\* step taking every level up to 2 as its base case.
step_BaseUpTo2(S, node) ==
    IF node = Null THEN Err(S)
    ELSE IF S.nodes[node].level <= 2 THEN evolveLevel2(S, node)
    ELSE IF S.nodes[node].id \in DOMAIN S.cache THEN Ok(S, S.cache[S.nodes[node].id])
    ELSE LET f == run(Frame(S, node), stepBody)
         IN  IF f.ok
             THEN Ok([f.S EXCEPT !.cache = MapSet(f.S.cache, S.nodes[node].id, f.v.result)],
                     f.v.result)
             ELSE Err(f.S)

step(S, node) ==
    IF node = Null THEN Err(S)
    ELSE IF S.nodes[node].level = 2 THEN evolveLevel2(S, node)
    ELSE IF S.nodes[node].id \in DOMAIN S.cache THEN Ok(S, S.cache[S.nodes[node].id])
    ELSE LET f == run(Frame(S, node), stepBody)
         IN  IF f.ok
             THEN Ok([f.S EXCEPT !.cache = MapSet(f.S.cache, S.nodes[node].id, f.v.result)],
                     f.v.result)
             ELSE Err(f.S)

\* ---------------------------------------------------------------- advance
\* advance(node, steps), variable-generation stepping.  The nine sub-nodes are
\* those of step (the first five statements of stepBody and the four children).
RECURSIVE advance(_, _, _)

\* The results so far of a sequence of calls, and one more result.
Push(acc, res) ==
    [S |-> res.S, ok |-> res.ok, r |-> Append(acc.r, res.r)]

\* advance on each node of a sequence, in order, by the same steps.
RECURSIVE advanceEach(_, _, _)
advanceEach(acc, ns, steps) ==
    IF ns = <<>> \/ ~acc.ok THEN acc
    ELSE advanceEach(Push(acc, advance(acc.S, Head(ns), steps)), Tail(ns), steps)

\* One output child from the inner corners of four adjacent sub-results.
innerCorners(S, level, q) ==
    create(S, level, S.nodes[q[1]].se, S.nodes[q[2]].sw, S.nodes[q[3]].ne, S.nodes[q[4]].nw)

RECURSIVE innerEach(_, _, _)
innerEach(acc, level, qs) ==
    IF qs = <<>> \/ ~acc.ok THEN acc
    ELSE innerEach(Push(acc, innerCorners(acc.S, level, Head(qs))), level, Tail(qs))

\* The level k-1 result from the four output children.
combine(ch, level) ==
    IF ch.ok THEN create(ch.S, level, ch.r[1], ch.r[2], ch.r[3], ch.r[4]) ELSE Err(ch.S)

\* The sub-macrostep case: rs.r is the sequence r00, r01, r02, r10, ..., r22.
reassemble(rs, level) ==
    IF ~rs.ok THEN Err(rs.S)
    ELSE combine(innerEach(Ok(rs.S, <<>>), level - 2,
                           << <<rs.r[1], rs.r[2], rs.r[4], rs.r[5]>>,
                              <<rs.r[2], rs.r[3], rs.r[5], rs.r[6]>>,
                              <<rs.r[4], rs.r[5], rs.r[7], rs.r[8]>>,
                              <<rs.r[5], rs.r[6], rs.r[8], rs.r[9]>> >>),
                 level - 1)

nine(f, steps) ==
    IF ~f.ok THEN Err(f.S)
    ELSE advanceEach(Ok(f.S, <<>>), <<f.v.nw, f.v.n01, f.v.ne, f.v.n10, f.v.n11,
                                      f.v.n12, f.v.sw, f.v.n21, f.v.se>>, steps)

subMacrostep(S, node, steps) ==
    reassemble(nine(run(Frame(S, node), SubSeq(stepBody, 1, 5)), steps), S.nodes[node].level)

advance(S, node, steps) ==
    IF node = Null \/ steps < 0 THEN Err(S)
    ELSE IF S.nodes[node].level < 2 THEN Err(S)
    ELSE IF steps = 0
         THEN centeredSubnode(S, S.nodes[node].nw, S.nodes[node].ne,
                                 S.nodes[node].sw, S.nodes[node].se)
    ELSE IF steps = Pow2(S.nodes[node].level - 2) THEN step(S, node)
    ELSE IF S.nodes[node].level = 2 THEN evolveLevel2(S, node)
    ELSE subMacrostep(S, node, steps)

\* ---------------------------------------------------------------- the program
\* `last` is the record a test driver keeps of its latest call: the operation,
\* the node it was applied to, the outcome, and the grid the driver loaded.
NoCall == [op |-> "init", arg |-> Null, ret |-> Null, ok |-> TRUE, steps |-> 0,
           grid |-> [level |-> 0, cells |-> {}]]

Init ==
    /\ nodes = <<>>
    /\ nodeCache = EmptyMap
    /\ emptyNodeCache = EmptyMap
    /\ nextId = 1
    /\ cache = EmptyMap
    /\ last = NoCall

Leaves(res) ==
    /\ nodes' = res.S.nodes
    /\ nodeCache' = res.S.nodeCache
    /\ emptyNodeCache' = res.S.emptyNodeCache
    /\ nextId' = res.S.nextId
    /\ cache' = res.S.cache

\* A call runs to completion (or to its throw) and leaves its store behind.
Call(res) ==
    \E r \in {res} :
        /\ Len(r.S.nodes) <= MaxNodes
        /\ Leaves(r)
        /\ UNCHANGED last

\* The caller may hold a reference to every node that was ever returned.
Held == Addrs(Cur)

\* Four arguments of which at most one differs from the other three.
OneOdd(a, b, p) == [i \in 1 .. 4 |-> IF i = p THEN b ELSE a]

Quads == {OneOdd(a, b, p) : a \in Held, b \in Held, p \in 1 .. 4}

Coords == -1 .. MaxCoord

Roots == UNION {[1 .. k -> Held] : k \in 0 .. MaxRoots}

CreateLeaf ==
    \E alive \in BOOLEAN : Call(createLeaf(Cur, alive))

Empty ==
    \E level \in 0 .. MaxLevel : Call(empty(Cur, level))

Create ==
    \E level \in 1 .. MaxLevel, q \in Quads :
        Call(create(Cur, level, q[1], q[2], q[3], q[4]))

SetCell ==
    \E n \in Held, x \in Coords, y \in Coords, v \in BOOLEAN :
        Call(setCell(Cur, n, x, y, v))

Expand ==
    \E n \in Held : Call(expand(Cur, n))

CenteredHorizontal ==
    \E w \in Held, e \in Held : Call(centeredHorizontal(Cur, w, e))

CenteredVertical ==
    \E n \in Held, s \in Held : Call(centeredVertical(Cur, n, s))

CenteredSubnode ==
    \E q \in Quads : Call(centeredSubnode(Cur, q[1], q[2], q[3], q[4]))

Step ==
    \E n \in Held : Call(step(Cur, n))

ClearCache ==
    Call(clearCache(Cur))

CollectGarbage ==
    \E roots \in Roots : Call(collectGarbage(Cur, roots))

NextNoGC ==
    \/ CreateLeaf
    \/ Empty
    \/ Create
    \/ SetCell
    \/ Expand
    \/ CenteredHorizontal
    \/ CenteredVertical
    \/ CenteredSubnode
    \/ Step

Next ==
    \/ NextNoGC
    \/ ClearCache
    \/ CollectGarbage

Spec == Init /\ [][Next]_vars

SpecNoGC == Init /\ [][NextNoGC]_vars

\* ---------------------------------------------------------------- test drivers
Grid(level) == (0 .. Pow2(level) - 1) \X (0 .. Pow2(level) - 1)

\* The first cell of a pattern in row-major order.
FirstCell(P) ==
    CHOOSE c \in P : \A d \in P : c[2] < d[2] \/ (c[2] = d[2] /\ c[1] <= d[1])

\* The drivers' set-up: from a node, set every cell of the pattern alive.
RECURSIVE setCells(_, _, _)
setCells(S, node, P) ==
    IF P = {} THEN Ok(S, node)
    ELSE LET c == FirstCell(P)
             r == setCell(S, node, c[1], c[2], TRUE)
         IN  IF r.ok THEN setCells(r.S, r.r, P \ {c}) ELSE r

loadGrid(S, level, P) ==
    LET e == empty(S, level)
    IN  IF e.ok THEN setCells(e.S, e.r, P) ELSE e

LoadGrid(level, P) ==
    \E res \in {loadGrid(Cur, level, P)} :
        /\ Leaves(res)
        /\ last' = [op |-> "load", arg |-> Null, ret |-> res.r, ok |-> res.ok,
                    steps |-> 0, grid |-> [level |-> level, cells |-> P]]

StepLoaded ==
    /\ last.op = "load"
    /\ last.ok
    /\ \E res \in {step(Cur, last.ret)} :
           /\ Leaves(res)
           /\ last' = [last EXCEPT !.op = "step", !.arg = last.ret,
                                   !.ret = res.r, !.ok = res.ok]

\* Every 4x4 grid.
LoadBase ==
    /\ last.op = "init"
    /\ \E P \in SUBSET Grid(2) : LoadGrid(2, P)

NextBase ==
    \/ LoadBase
    \/ StepLoaded

SpecBase == Init /\ [][NextBase]_vars

\* Grids of level 2, 3 and 4: every pattern of at most MaxLive cells inside a
\* 3x3 window, the window placed at the top/left border, across the centre
\* seams and at the bottom/right border of the grid.
Window == (0 .. 2) \X (0 .. 2)

Seeds == {Q \in SUBSET Window : Cardinality(Q) <= MaxLive}

Offsets(level) == {0, Pow2(level - 1) - 1, Pow2(level) - 3}

Shift(Q, dx, dy) == {<<c[1] + dx, c[2] + dy>> : c \in Q}

Patterns(level) ==
    {Shift(Q, dx, dy) \cap Grid(level) : Q \in Seeds, dx \in Offsets(level), dy \in Offsets(level)}

LoadPattern ==
    /\ last.op = "init"
    /\ \E level \in 2 .. 4 : \E P \in Patterns(level) : LoadGrid(level, P)

NextStep ==
    \/ LoadPattern
    \/ StepLoaded

SpecStep == Init /\ [][NextStep]_vars

\* The drivers of advance: a pattern grid advanced by any number of
\* generations up to the macro-step of its level.
LoadAdvance ==
    /\ last.op = "init"
    /\ \E level \in 2 .. 4 :
          \E P \in {Q \in Patterns(level) : Cardinality(Q) <= MaxAdvLive} : LoadGrid(level, P)

AdvanceLoaded ==
    /\ last.op = "load"
    /\ last.ok
    /\ \E steps \in 0 .. Pow2(last.grid.level - 2) :
          \E res \in {advance(Cur, last.ret, steps)} :
              /\ Leaves(res)
              /\ last' = [last EXCEPT !.op = "advance", !.arg = last.ret, !.steps = steps,
                                      !.ret = res.r, !.ok = res.ok]

NextAdvance ==
    \/ LoadAdvance
    \/ AdvanceLoaded

SpecAdvance == Init /\ [][NextAdvance]_vars

\* The drift driver: a level-4 grid, expanded, then advanced by one
\* generation.  The grids are every pattern inside a 2x2 window, the window
\* placed at the top/left border, across the centre seams, at the centre
\* (8, 8) and at the bottom/right border.
DriftLevel == 4

DriftOffsets == {0, Pow2(DriftLevel - 1) - 1, Pow2(DriftLevel - 1), Pow2(DriftLevel) - 2}

DriftPatterns ==
    {Shift(Q, dx, dy) : Q \in SUBSET ((0 .. 1) \X (0 .. 1)), dx \in DriftOffsets, dy \in DriftOffsets}

LoadDrift ==
    /\ last.op = "init"
    /\ \E P \in DriftPatterns : LoadGrid(DriftLevel, P)

ExpandLoaded ==
    /\ last.op = "load"
    /\ last.ok
    /\ \E res \in {expand(Cur, last.ret)} :
          /\ Leaves(res)
          /\ last' = [last EXCEPT !.op = "expand", !.arg = last.ret,
                                  !.ret = res.r, !.ok = res.ok]

AdvanceExpanded ==
    /\ last.op = "expand"
    /\ last.ok
    /\ \E res \in {advance(Cur, last.ret, 1)} :
          /\ Leaves(res)
          /\ last' = [last EXCEPT !.op = "drift", !.steps = 1,
                                  !.ret = res.r, !.ok = res.ok]

NextDrift ==
    \/ LoadDrift
    \/ ExpandLoaded
    \/ AdvanceExpanded

SpecDrift == Init /\ [][NextDrift]_vars

\* The run of a caller that holds one root and replaces it by what setCell,
\* expand and step return, calling collectGarbage([root]) at any point.  The
\* driver keeps the calls made so far in last.arg and the root in last.ret; a
\* call that throws leaves the root as it is.
MaxOps == 4

MaxRunLevel == 4

RunPatterns == {{}, {<<1, 1>>}, {<<1, 1>>, <<2, 2>>}, {<<1, 1>>, <<2, 1>>, <<1, 2>>, <<2, 2>>}}

RunCoords == {<<0, 0>>, <<1, 1>>}

RunLoad ==
    /\ last.op = "init"
    /\ \E P \in RunPatterns :
          \E res \in {loadGrid(Cur, 2, P)} :
              /\ Leaves(res)
              /\ last' = [op |-> "run", arg |-> <<>>, ret |-> res.r, ok |-> res.ok,
                          steps |-> 0, grid |-> [level |-> 2, cells |-> P]]

\* The call `op` was made and its outcome is res.
RunCall(res, op) ==
    /\ Leaves(res)
    /\ last' = [last EXCEPT !.arg = Append(last.arg, op), !.ok = res.ok,
                            !.ret = IF res.ok /\ res.r # Null THEN res.r ELSE last.ret]

Running ==
    /\ last.op = "run"
    /\ Len(last.arg) < MaxOps

RunSetCell ==
    /\ Running
    /\ \E c \in RunCoords, v \in BOOLEAN :
          \E res \in {setCell(Cur, last.ret, c[1], c[2], v)} :
              RunCall(res, <<"setCell", c[1], c[2], v>>)

RunExpand ==
    /\ Running
    /\ nodes[last.ret].level < MaxRunLevel
    /\ \E res \in {expand(Cur, last.ret)} : RunCall(res, <<"expand">>)

RunStep ==
    /\ Running
    /\ \E res \in {step(Cur, last.ret)} : RunCall(res, <<"step">>)

RunCollectGarbage ==
    /\ Running
    /\ \E res \in {collectGarbage(Cur, <<last.ret>>)} : RunCall(res, <<"collectGarbage">>)

NextRun ==
    \/ RunLoad
    \/ RunSetCell
    \/ RunExpand
    \/ RunStep
    \/ RunCollectGarbage

SpecRun == Init /\ [][NextRun]_vars

\* ---------------------------------------------------------------- drawing
\* The application holds the universe root (universeRef.current, here last.ret)
\* and draws into it with world coordinates whose origin is the root's centre.
ExpandTries == 10

\* (x, y) lies in the world square [-half, half) of a root of this level.
inWorld(level, x, y) ==
    /\ x >= -(Pow2(level) \div 2)
    /\ x < Pow2(level) \div 2
    /\ y >= -(Pow2(level) \div 2)
    /\ y < Pow2(level) \div 2

\* The loop of handleCellToggle: expand until the target is inside, at most
\* ExpandTries times.  g is the outcome so far, i the loop counter.
RECURSIVE expandUntil(_, _, _, _)
expandUntil(g, x, y, i) ==
    IF ~g.ok \/ i >= ExpandTries \/ inWorld(g.S.nodes[g.r].level, x, y) THEN g
    ELSE expandUntil(expand(g.S, g.r), x, y, i + 1)

\* drawAt using the full size of the root as the offset.
drawAt_SizeOffset(g, x, y, alive) ==
    IF ~g.ok THEN Err(g.S)
    ELSE setCell(g.S, g.r, x + Pow2(g.S.nodes[g.r].level),
                 y + Pow2(g.S.nodes[g.r].level), alive)

\* World to local, then setCell on the expanded root.
drawAt(g, x, y, alive) ==
    IF ~g.ok THEN Err(g.S)
    ELSE setCell(g.S, g.r, x + Pow2(g.S.nodes[g.r].level) \div 2,
                 y + Pow2(g.S.nodes[g.r].level) \div 2, alive)

\* The body of the try block; a throw anywhere inside is caught by the handler.
handleCellToggle(S, root, x, y, alive) ==
    drawAt(expandUntil(Ok(S, root), x, y, 0), x, y, alive)

\* The level of the empty universe the application starts from and resets to.
StartLevel == 1

MaxToggles == 3

\* Targets inside the start root, one and two levels out, and at the two
\* sides of the edge that ExpandTries expansions of the start root reach.
ToggleCoords ==
    {<<0, 0>>, <<-1, -1>>, <<1, -2>>,
     <<Pow2(StartLevel + ExpandTries - 1) - 1, 0>>,
     <<Pow2(StartLevel + ExpandTries - 1), 0>>,
     <<0, -Pow2(StartLevel + ExpandTries - 1) - 1>>}

HandleReset ==
    /\ last.op = "init"
    /\ \E res \in {empty(clearCache(Cur).S, StartLevel)} :
          /\ Leaves(res)
          /\ last' = [NoCall EXCEPT !.op = "draw", !.arg = <<>>, !.ret = res.r, !.ok = res.ok]

\* universeRef.current is replaced only when nothing was thrown.  The driver
\* records the target, the root before the call and the number of calls.
HandleCellToggle ==
    /\ last.op = "draw"
    /\ last.steps < MaxToggles
    /\ \E c \in ToggleCoords, alive \in BOOLEAN :
          \E res \in {handleCellToggle(Cur, last.ret, c[1], c[2], alive)} :
              /\ Leaves(res)
              /\ last' = [last EXCEPT !.arg = <<c[1], c[2], alive, last.ret>>,
                                      !.ok = res.ok,
                                      !.steps = last.steps + 1,
                                      !.ret = IF res.ok THEN res.r ELSE last.ret]

NextDraw ==
    \/ HandleReset
    \/ HandleCellToggle

SpecDraw == Init /\ [][NextDraw]_vars

\* ---------------------------------------------------------------- simulation loop
\* App.step: expand, expand once more when auto-expand is on and the root is
\* below the level cap, evolve, and every GcPeriod-th step collect garbage.
\* The application's cap is 30, its periods are 20 and 100 and its universes
\* start at level 8; the model runs the same code with smaller numbers.
LevelCap == 5

GcPeriod == 2

ClearPeriod == 4

MaxLoopSteps == 4

LoopLevel == 2

LoopPatterns == {{}, {<<1, 1>>}, {<<1, 1>>, <<2, 1>>, <<1, 2>>, <<2, 2>>}}

\* The store after clearCache, on every ClearPeriod-th step.
periodicClear(S, count) ==
    IF count % ClearPeriod = 0 THEN clearCache(S).S ELSE S

\* The periodic collection with the root as the only live root.
periodicGC(S, root, count) ==
    IF count % GcPeriod # 0 THEN Ok(S, root)
    ELSE Ok(collectGarbage(periodicClear(S, count), <<root>>).S, root)

\* The expansions of App.step with the second made whatever the level.
RECURSIVE expansions_NoCap(_, _, _)
expansions_NoCap(g, i, on) ==
    IF ~g.ok THEN g
    ELSE IF i = 0 \/ (i = 1 /\ on)
         THEN expansions_NoCap(expand(g.S, g.r), i + 1, on)
    ELSE g

\* The expansions of App.step: the first always, the second when auto-expand
\* is on and the root is below the cap.  i is the number made so far.
RECURSIVE expansions(_, _, _)
expansions(g, i, on) ==
    IF ~g.ok THEN g
    ELSE IF i = 0 \/ (i = 1 /\ on /\ g.S.nodes[g.r].level < LevelCap)
         THEN expansions(expand(g.S, g.r), i + 1, on)
    ELSE g

\* loadPattern: clearCache, the pattern set into an empty root, collectGarbage.
\* The driver records the revision of the application (the evaluator it
\* calls) when the pattern is loaded.
LoopLoad ==
    /\ last.op = "init"
    /\ \E P \in LoopPatterns, rev \in {"step", "advance"} :
          \E g \in {loadGrid(clearCache(Cur).S, LoopLevel, P)} :
              \E res \in {collectGarbage(g.S, <<g.r>>)} :
                  /\ Leaves(res)
                  /\ last' = [op |-> "loop", arg |-> [rev |-> rev], ret |-> g.r,
                              ok |-> g.ok, steps |-> 0,
                              grid |-> [level |-> LoopLevel, cells |-> P]]

\* universeRef.current = root; a throw leaves the root and the count alone.
\* The driver records the root before the step, the auto-expand setting and
\* the level of the node g the evaluator was given.
Looped(res, on, g) ==
    /\ Leaves(res)
    /\ last' = [last EXCEPT !.arg = [rev |-> last.arg.rev, before |-> last.ret, on |-> on,
                                     fed |-> IF g.ok THEN g.S.nodes[g.r].level ELSE 0],
                            !.ok = res.ok,
                            !.steps = IF res.ok THEN last.steps + 1 ELSE last.steps,
                            !.ret = IF res.ok THEN res.r ELSE last.ret]

Looping ==
    /\ last.op = "loop"
    /\ last.ok
    /\ last.steps < MaxLoopSteps

\* The evaluator call of App.step: engineRef.current.step(root) in one
\* revision of the application, engineRef.current.advance(root, 1) in the other.
evolve(g, rev) ==
    IF ~g.ok THEN g
    ELSE IF rev = "advance" THEN advance(g.S, g.r, 1)
    ELSE step(g.S, g.r)

\* stepCount.current++ and the periodic collection, unless the step threw.
endOfStep(r, count) ==
    IF ~r.ok THEN r ELSE periodicGC(r.S, r.r, count)

\* App.step, from let root = universeRef.current to the periodic collection.
AppStep ==
    /\ Looping
    /\ \E on \in BOOLEAN :
          \E g \in {expansions(Ok(Cur, last.ret), 0, on)} :
              \E r \in {evolve(g, last.arg.rev)} :
                  \E res \in {endOfStep(r, last.steps + 1)} : Looped(res, on, g)

NextLoop ==
    \/ LoopLoad
    \/ AppStep

SpecLoop == Init /\ [][NextLoop]_vars

\* ---------------------------------------------------------------- string ids
\* The revision of QuadTree whose node id is the structural string itself:
\* 'alive' or 'dead' for a leaf, the four children's ids joined by ':' for any
\* other node.  An id is modelled as its sequence of ':'-separated tokens, and
\* the store has no counter.  getCell is the same code in both revisions.
hashNode(S, nw, ne, sw, se) ==
    IF nw = Null \/ ne = Null \/ sw = Null \/ se = Null
    THEN <<"empty-leaf">>
    ELSE S.nodes[nw].id \o S.nodes[ne].id \o S.nodes[sw].id \o S.nodes[se].id

NewNodeH(S, node) ==
    Ok([S EXCEPT !.nodes = Append(S.nodes, node),
                 !.nodeCache = MapSet(S.nodeCache, node.id, Len(S.nodes) + 1)],
       Len(S.nodes) + 1)

createH(S, level, nw, ne, sw, se) ==
    IF nw = Null THEN Err(S)
    ELSE IF S.nodes[nw].level # level - 1 THEN Err(S)
    ELSE IF hashNode(S, nw, ne, sw, se) \in DOMAIN S.nodeCache
         THEN Ok(S, S.nodeCache[hashNode(S, nw, ne, sw, se)])
    ELSE IF ne = Null \/ sw = Null \/ se = Null THEN Err(S)
    ELSE NewNodeH(S, [level |-> level, nw |-> nw, ne |-> ne, sw |-> sw, se |-> se,
                      population |-> SumPopulation(S, nw, ne, sw, se),
                      id |-> hashNode(S, nw, ne, sw, se)])

createLeafH(S, alive) ==
    IF (IF alive THEN <<"alive">> ELSE <<"dead">>) \in DOMAIN S.nodeCache
    THEN Ok(S, S.nodeCache[IF alive THEN <<"alive">> ELSE <<"dead">>])
    ELSE NewNodeH(S, [level |-> 0, nw |-> Null, ne |-> Null, sw |-> Null, se |-> Null,
                      population |-> IF alive THEN 1 ELSE 0,
                      id |-> IF alive THEN <<"alive">> ELSE <<"dead">>])

\* create(level, child, child, child, child) and emptyNodeCache.set.
emptyOf(c, level) ==
    IF ~c.ok THEN c ELSE createH(c.S, level, c.r, c.r, c.r, c.r)

emptySet(n, level) ==
    IF ~n.ok THEN n
    ELSE Ok([n.S EXCEPT !.emptyNodeCache = MapSet(n.S.emptyNodeCache, level, n.r)], n.r)

RECURSIVE emptyH(_, _)
emptyH(S, level) ==
    IF level < 0 THEN Err(S)
    ELSE IF level = 0 THEN createLeafH(S, FALSE)
    ELSE IF level \in DOMAIN S.emptyNodeCache THEN Ok(S, S.emptyNodeCache[level])
    ELSE emptySet(emptyOf(emptyH(S, level - 1), level), level)

\* The node rebuilt around the child c that setCell returned for quadrant q;
\* the children are compared by reference.
rebuilt(c, node, q) ==
    IF ~c.ok THEN c
    ELSE IF c.r = c.S.nodes[node][q] THEN Ok(c.S, node)
    ELSE createH(c.S, c.S.nodes[node].level,
                 IF q = "nw" THEN c.r ELSE c.S.nodes[node].nw,
                 IF q = "ne" THEN c.r ELSE c.S.nodes[node].ne,
                 IF q = "sw" THEN c.r ELSE c.S.nodes[node].sw,
                 IF q = "se" THEN c.r ELSE c.S.nodes[node].se)

RECURSIVE setCellH(_, _, _, _, _)
setCellH(S, node, x, y, alive) ==
    IF S.nodes[node].level = 0 THEN createLeafH(S, alive)
    ELSE IF x < 0 \/ x >= Pow2(S.nodes[node].level) \/ y < 0 \/ y >= Pow2(S.nodes[node].level)
         THEN Err(S)
    ELSE IF x < Pow2(S.nodes[node].level) \div 2
         THEN IF y < Pow2(S.nodes[node].level) \div 2
              THEN rebuilt(setCellH(S, S.nodes[node].nw, x, y, alive), node, "nw")
              ELSE rebuilt(setCellH(S, S.nodes[node].sw, x,
                                    y - Pow2(S.nodes[node].level) \div 2, alive), node, "sw")
    ELSE IF y < Pow2(S.nodes[node].level) \div 2
         THEN rebuilt(setCellH(S, S.nodes[node].ne,
                               x - Pow2(S.nodes[node].level) \div 2, y, alive), node, "ne")
    ELSE rebuilt(setCellH(S, S.nodes[node].se, x - Pow2(S.nodes[node].level) \div 2,
                          y - Pow2(S.nodes[node].level) \div 2, alive), node, "se")

centeredSubnodeH(S, nw, ne, sw, se) ==
    IF nw = Null \/ ne = Null \/ sw = Null \/ se = Null THEN Err(S)
    ELSE createH(S, S.nodes[nw].level,
                 S.nodes[nw].se, S.nodes[ne].sw, S.nodes[sw].ne, S.nodes[se].nw)

\* The nodes made so far by expand: acc.r is <<empty, nw, ne, sw, se>> as far
\* as it got, and res is the outcome of the next create.
made(acc, res) ==
    IF ~res.ok THEN Err(res.S) ELSE Ok(res.S, Append(acc.r, res.r))

expandNw(acc, n) ==
    IF ~acc.ok THEN acc
    ELSE made(acc, createH(acc.S, n.level, acc.r[1], acc.r[1], acc.r[1], n.nw))

expandNe(acc, n) ==
    IF ~acc.ok THEN acc
    ELSE made(acc, createH(acc.S, n.level, acc.r[1], acc.r[1], n.ne, acc.r[1]))

expandSw(acc, n) ==
    IF ~acc.ok THEN acc
    ELSE made(acc, createH(acc.S, n.level, acc.r[1], n.sw, acc.r[1], acc.r[1]))

expandSe(acc, n) ==
    IF ~acc.ok THEN acc
    ELSE made(acc, createH(acc.S, n.level, n.se, acc.r[1], acc.r[1], acc.r[1]))

expandRoot(acc, n) ==
    IF ~acc.ok THEN acc
    ELSE createH(acc.S, n.level + 1, acc.r[2], acc.r[3], acc.r[4], acc.r[5])

expandH(S, node) ==
    expandRoot(expandSe(expandSw(expandNe(expandNw(
        made(Ok(S, <<>>), emptyH(S, S.nodes[node].level - 1)),
        S.nodes[node]), S.nodes[node]), S.nodes[node]), S.nodes[node]), S.nodes[node])

\* The two revisions run side by side on the same calls.  The integer
\* revision's store is the program's state; the driver keeps the string
\* revision's store in last.arg.twin, and in last.ret the pairs of nodes the
\* calls returned, first the integer revision's and then the string one's.
MaxTwinCalls == 3

TwinCoords == {<<0, 0>>, <<1, 1>>}

\* Four children of which at most two are different, by position in last.ret.
TwinQuads == {q \in [1 .. 4 -> DOMAIN last.ret] : Cardinality({q[p] : p \in 1 .. 4}) <= 2}

EmptyTwin == Store(<<>>, EmptyMap, EmptyMap, 0, EmptyMap)

Twin == last.arg.twin

\* The same call was made in both revisions: ri and rh are its outcomes.
TwinCall(ri, rh) ==
    /\ Leaves(ri)
    /\ last' = [last EXCEPT !.arg = [twin |-> rh.S, okH |-> rh.ok],
                            !.ok = ri.ok,
                            !.steps = last.steps + 1,
                            !.ret = IF ri.ok /\ rh.ok THEN Append(last.ret, <<ri.r, rh.r>>)
                                    ELSE last.ret]

\* The driver's set-up: each revision starts with its two leaves.
TwinLeaves ==
    /\ last.op = "init"
    /\ \E ri \in {createLeaf(createLeaf(Cur, FALSE).S, TRUE)},
          rh \in {createLeafH(createLeafH(EmptyTwin, FALSE).S, TRUE)} :
          /\ Leaves(ri)
          /\ last' = [NoCall EXCEPT !.op = "twin", !.arg = [twin |-> rh.S, okH |-> rh.ok],
                                    !.ret = <<<<1, 1>>, <<ri.r, rh.r>>>>]

Twinning ==
    /\ last.op = "twin"
    /\ last.steps < MaxTwinCalls

TwinEmpty ==
    /\ Twinning
    /\ \E level \in 1 .. 2 :
          \E ri \in {empty(Cur, level)}, rh \in {emptyH(Twin, level)} : TwinCall(ri, rh)

TwinCreate ==
    /\ Twinning
    /\ \E level \in 1 .. 2, q \in TwinQuads :
          \E ri \in {create(Cur, level, last.ret[q[1]][1], last.ret[q[2]][1],
                            last.ret[q[3]][1], last.ret[q[4]][1])},
             rh \in {createH(Twin, level, last.ret[q[1]][2], last.ret[q[2]][2],
                             last.ret[q[3]][2], last.ret[q[4]][2])} : TwinCall(ri, rh)

TwinSetCell ==
    /\ Twinning
    /\ \E i \in DOMAIN last.ret, c \in TwinCoords, v \in BOOLEAN :
          \E ri \in {setCell(Cur, last.ret[i][1], c[1], c[2], v)},
             rh \in {setCellH(Twin, last.ret[i][2], c[1], c[2], v)} : TwinCall(ri, rh)

TwinExpand ==
    /\ Twinning
    /\ \E i \in DOMAIN last.ret :
          /\ nodes[last.ret[i][1]].level >= 1
          /\ \E ri \in {expand(Cur, last.ret[i][1])},
                rh \in {expandH(Twin, last.ret[i][2])} : TwinCall(ri, rh)

TwinCenteredSubnode ==
    /\ Twinning
    /\ \E i \in DOMAIN last.ret, j \in DOMAIN last.ret :
          /\ nodes[last.ret[i][1]].level >= 1
          /\ nodes[last.ret[j][1]].level >= 1
          /\ \E ri \in {centeredSubnode(Cur, last.ret[i][1], last.ret[j][1],
                                        last.ret[j][1], last.ret[i][1])},
                rh \in {centeredSubnodeH(Twin, last.ret[i][2], last.ret[j][2],
                                         last.ret[j][2], last.ret[i][2])} : TwinCall(ri, rh)

NextTwin ==
    \/ TwinLeaves
    \/ TwinEmpty
    \/ TwinCreate
    \/ TwinSetCell
    \/ TwinExpand
    \/ TwinCenteredSubnode

SpecTwin == Init /\ [][NextTwin]_vars

\* ---------------------------------------------------------------- parseRLE
\* A text is a sequence of characters, each a string of length one.
MaxText == 4

IsSpace(c) == c \in {" ", "\n"}

IsDigit(c) == c \in {"0", "1", "2", "3", "4", "5", "6", "7", "8", "9"}

\* parseInt of a digit.
DigitValue(c) ==
    CASE c = "0" -> 0 [] c = "1" -> 1 [] c = "2" -> 2 [] c = "3" -> 3 [] c = "4" -> 4
      [] c = "5" -> 5 [] c = "6" -> 6 [] c = "7" -> 7 [] c = "8" -> 8 [] c = "9" -> 9

\* The first position from i on that holds no white space (\s*).
RECURSIVE SkipSpace(_, _)
SkipSpace(t, i) ==
    IF i <= Len(t) /\ IsSpace(t[i]) THEN SkipSpace(t, i + 1) ELSE i

\* The end of the line of position i (.*$): the position of its line break,
\* or one past the text.
RECURSIVE EndOfLine(_, _)
EndOfLine(t, i) ==
    IF i <= Len(t) /\ t[i] # "\n" THEN EndOfLine(t, i + 1) ELSE i

\* Where a match of /^\s*#.*$/ (kind "#") or /^\s*x\s*=.*$/ (kind "x") that
\* starts at i ends, or 0 when there is none.
MatchEnd(t, i, kind) ==
    LET j == SkipSpace(t, i)
    IN  IF ~(i = 1 \/ t[i - 1] = "\n") \/ j > Len(t) \/ t[j] # kind THEN 0
        ELSE IF kind = "#" THEN EndOfLine(t, j)
        ELSE LET k == SkipSpace(t, j + 1)
             IN  IF k <= Len(t) /\ t[k] = "=" THEN EndOfLine(t, k) ELSE 0

\* replace(/.../gm, ''): the text from i on without the matches.
RECURSIVE RemoveLines(_, _, _)
RemoveLines(t, i, kind) ==
    IF i > Len(t) THEN <<>>
    ELSE IF MatchEnd(t, i, kind) # 0 THEN RemoveLines(t, MatchEnd(t, i, kind), kind)
    ELSE <<t[i]>> \o RemoveLines(t, i + 1, kind)

RECURSIVE RemoveSpace(_)
RemoveSpace(t) ==
    IF t = <<>> THEN <<>>
    ELSE (IF IsSpace(Head(t)) THEN <<>> ELSE <<Head(t)>>) \o RemoveSpace(Tail(t))

cleanRle(rle) == RemoveSpace(RemoveLines(RemoveLines(rle, 1, "#"), 1, "x"))

\* The inner loop of 'o': result.push([x++, y]) runLength times.
pushRun(result, x, y, runLength) ==
    result \o [k \in 1 .. runLength |-> <<x + k - 1, y>>]

\* The loop of parseRLE from position i, with the locals x, y, count, result.
RECURSIVE scan(_, _, _, _, _, _)
scan(t, i, x, y, count, result) ==
    IF i > Len(t) THEN result
    ELSE IF t[i] = "!" THEN result
    ELSE IF IsDigit(t[i]) THEN scan(t, i + 1, x, y, count * 10 + DigitValue(t[i]), result)
    ELSE LET runLength == IF count = 0 THEN 1 ELSE count
         IN  IF t[i] = "b" THEN scan(t, i + 1, x + runLength, y, 0, result)
             ELSE IF t[i] = "o"
                  THEN scan(t, i + 1, x + runLength, y, 0, pushRun(result, x, y, runLength))
             ELSE IF t[i] = "$" THEN scan(t, i + 1, 0, y + runLength, 0, result)
             ELSE scan(t, i + 1, x, y, 0, result)

parseRLE(rle) == scan(cleanRle(rle), 1, 0, 0, 0, <<>>)

\* The texts the driver parses: every text of at most MaxText characters over
\* the tags, the end mark and three digits, the glider of the test, and the
\* glider as the pattern table holds it, with its header line.
RleChars == {"o", "b", "$", "!", "0", "1", "2"}

GliderRle ==
    <<"b", "o", "b", "$", "2", "b", "o", "$", "3", "o", "!">>

GliderPattern ==
    <<"\n", " ", " ", " ", " ", "x", " ", "=", " ", "3", ",", " ", "y", " ", "=", " ",
      "3", ",", " ", "r", "u", "l", "e", " ", "=", " ", "B", "3", "/", "S", "2", "3",
      "\n", " ", " ", " ", " ", "b", "o", "b", "$", "2", "b", "o", "$", "3", "o", "!",
      "\n", " ", " ">>

Texts == UNION {[1 .. n -> RleChars] : n \in 0 .. MaxText} \cup {GliderRle, GliderPattern}

InitRLE ==
    /\ nodes = <<>>
    /\ nodeCache = EmptyMap
    /\ emptyNodeCache = EmptyMap
    /\ nextId = 1
    /\ cache = EmptyMap
    /\ \E rle \in Texts : last = [NoCall EXCEPT !.op = "text", !.arg = rle]

ParseRLE ==
    /\ last.op = "text"
    /\ last' = [last EXCEPT !.op = "parseRLE", !.ret = parseRLE(last.arg)]
    /\ UNCHANGED <<nodes, nodeCache, emptyNodeCache, nextId, cache>>

NextRLE ==
    \/ ParseRLE

SpecRLE == InitRLE /\ [][NextRLE]_vars

\* ---------------------------------------------------------------- reference
\* Conway's rule B3/S23 evaluated directly on a set of live cells.
LiveNeighbours(live, c) ==
    Cardinality({d \in (-1 .. 1) \X (-1 .. 1) :
                    d # <<0, 0>> /\ <<c[1] + d[1], c[2] + d[2]>> \in live})

Survives(live, c) ==
    IF c \in live THEN LiveNeighbours(live, c) \in {2, 3}
    ELSE LiveNeighbours(live, c) = 3

\* One generation on the grid of a level; the cells beyond the grid are dead.
LifeNext(live, level) ==
    UNION {IF Survives(live, c) THEN {c} ELSE {} : c \in Grid(level)}

RECURSIVE LifeGen(_, _, _)
LifeGen(live, level, g) ==
    IF g = 0 THEN live ELSE LifeGen(LifeNext(live, level), level, g - 1)

\* The live cells of a node as getCell reads them.
CellsOf(S, node) ==
    {c \in Grid(S.nodes[node].level) : getCell(S, node, c[1], c[2])}

\* ---------------------------------------------------------------- vocabulary
Kids(n) == <<n.nw, n.ne, n.sw, n.se>>

\* Same level and the same four child ids, or at level 0 the same state.
SameShape(S, a, b) ==
    LET m == S.nodes[a]
        n == S.nodes[b]
    IN  /\ m.level = n.level
        /\ IF m.nw = Null \/ n.nw = Null
           THEN Kids(m) = Kids(n) /\ m.population = n.population
           ELSE makeKey(S, m.nw, m.ne, m.sw, m.se) = makeKey(S, n.nw, n.ne, n.sw, n.se)

\* Structural equality of content: equal levels and, recursively, equal children.
RECURSIVE DeepEq(_, _, _)
DeepEq(S, a, b) ==
    LET m == S.nodes[a]
        n == S.nodes[b]
    IN  /\ m.level = n.level
        /\ IF m.nw = Null \/ n.nw = Null
           THEN Kids(m) = Kids(n) /\ m.population = n.population
           ELSE \A i \in 1 .. 4 : DeepEq(S, Kids(m)[i], Kids(n)[i])

\* The child-level contract, down to the leaves.
RECURSIVE WellFormed(_, _)
WellFormed(S, a) ==
    LET n == S.nodes[a]
    IN  IF n.level = 0 THEN Kids(n) = <<Null, Null, Null, Null>>
        ELSE \A i \in 1 .. 4 :
                /\ Kids(n)[i] # Null
                /\ S.nodes[Kids(n)[i]].level = n.level - 1
                /\ WellFormed(S, Kids(n)[i])

\* The nodes reachable through child links from a set of nodes.
RECURSIVE Reach(_, _)
Reach(S, as) ==
    LET next == as \cup {k \in Addrs(S) : \E a \in as : \E i \in 1 .. 4 : Kids(S.nodes[a])[i] = k}
    IN  IF next = as THEN as ELSE Reach(S, next)

Range(f) == {f[x] : x \in DOMAIN f}

KeyOf(S, a) ==
    LET n == S.nodes[a]
    IN  IF n.level = 0 THEN (IF n.population # 0 THEN KeyAlive ELSE KeyDead)
        ELSE makeKey(S, n.nw, n.ne, n.sw, n.se)

\* ---------------------------------------------------------------- claims
\* C1: without collectGarbage the interner never holds two distinct nodes with
\* the same level and the same four child ids; create on the children of an
\* existing node returns that very instance and builds nothing; a node that
\* create returns has exactly the level and children asked for; and two nodes
\* have equal ids if and only if they are structurally equal.
C1_Canonical ==
    /\ \A a \in Held, b \in Held : SameShape(Cur, a, b) => a = b
    /\ \A a \in Held, b \in Held : (nodes[a].id = nodes[b].id) <=> DeepEq(Cur, a, b)
    /\ \A a \in Held :
          nodes[a].level >= 1 =>
             create(Cur, nodes[a].level, nodes[a].nw, nodes[a].ne, nodes[a].sw, nodes[a].se)
                = Ok(Cur, a)
    /\ \A level \in 1 .. MaxLevel, q \in Quads :
          LET r == create(Cur, level, q[1], q[2], q[3], q[4])
          IN  r.ok => /\ r.S.nodes[r.r].level = level
                      /\ Kids(r.S.nodes[r.r]) = q

\* A level-2 node with live cells exists and create on its children finds it.
C1_Witness ==
    \E a \in Held :
        /\ nodes[a].level = 2
        /\ nodes[a].population > 0
        /\ create(Cur, 2, nodes[a].nw, nodes[a].ne, nodes[a].sw, nodes[a].se).r = a

\* The result of the driver's step call, as a set of live cells.
ResultCells == CellsOf(Cur, last.ret)

\* C2: for a grid of level k in 2..4, step returns the level k-1 node whose cell
\* (x, y) is cell (x + 2^(k-2), y + 2^(k-2)) of the input after 2^(k-2)
\* generations of B3/S23 computed directly.
C2_StepMatchesReference ==
    last.op = "step" =>
        LET k == last.grid.level
            g == Pow2(k - 2)
            ref == LifeGen(last.grid.cells, k, g)
        IN  /\ last.ok
            /\ CellsOf(Cur, last.arg) = last.grid.cells
            /\ nodes[last.ret].level = k - 1
            /\ WellFormed(Cur, last.ret)
            /\ ResultCells = {c \in Grid(k - 1) : <<c[1] + g, c[2] + g>> \in ref}

\* A level-4 grid whose centre differs after four generations and is not empty.
C2_Witness ==
    /\ last.op = "step"
    /\ last.ok
    /\ last.grid.level = 4
    /\ ResultCells # {}
    /\ ResultCells # {c \in Grid(3) : <<c[1] + 4, c[2] + 4>> \in last.grid.cells}

\* The direct rule for one cell: survival on 2 or 3 live neighbours, birth on 3.
RuleAlive(live, c) ==
    IF c \in live THEN LiveNeighbours(live, c) = 2 \/ LiveNeighbours(live, c) = 3
    ELSE LiveNeighbours(live, c) = 3

IsLeaf(a, alive) ==
    /\ a # Null
    /\ nodes[a].level = 0
    /\ nodes[a].population = IF alive THEN 1 ELSE 0

\* C3: for every 4x4 grid, step returns the level-1 node whose nw, ne, sw, se
\* leaves are the next states of cells (1,1), (2,1), (1,2), (2,2) under the
\* direct rule.
C3_BaseRule ==
    last.op = "step" =>
        LET P == last.grid.cells
            r == nodes[last.ret]
        IN  /\ last.ok
            /\ CellsOf(Cur, last.arg) = P
            /\ r.level = 1
            /\ IsLeaf(r.nw, RuleAlive(P, <<1, 1>>))
            /\ IsLeaf(r.ne, RuleAlive(P, <<2, 1>>))
            /\ IsLeaf(r.sw, RuleAlive(P, <<1, 2>>))
            /\ IsLeaf(r.se, RuleAlive(P, <<2, 2>>))

\* A 4x4 grid in which one inner cell is born, one dies and one survives.
C3_Witness ==
    /\ last.op = "step"
    /\ last.ok
    /\ LET P == last.grid.cells
           inner == {<<1, 1>>, <<2, 1>>, <<1, 2>>, <<2, 2>>}
       IN  /\ \E c \in inner \ P : RuleAlive(P, c)
           /\ \E c \in inner \cap P : ~RuleAlive(P, c)
           /\ \E c \in inner \cap P : RuleAlive(P, c)

\* C4: in every state, collectGarbage included, any two nodes the caller holds
\* that have equal level and structurally equal content are the same instance
\* with the same id.
C4_CanonicalAcrossGC ==
    \A a \in Held, b \in Held :
        DeepEq(Cur, a, b) => (a = b /\ nodes[a].id = nodes[b].id)

\* C5: after collectGarbage(roots) has returned, the memo table is empty.
C5_MemoEmptyAfterGC ==
    \A roots \in Roots : collectGarbage(Cur, roots).S.cache = EmptyMap

\* The nodes collectGarbage(roots) is to keep: those reachable from the roots
\* and from the entries of the empty-node table.
Live(S, roots) == Reach(S, Range(roots) \cup Range(S.emptyNodeCache))

\* C6: immediately after collectGarbage(roots) the interner holds exactly the
\* nodes reachable from the roots and the empty nodes, each under its key.
C6_InternerIsReachableSet ==
    \A roots \in Roots :
        LET T == collectGarbage(Cur, roots).S
        IN  /\ \A a \in Live(Cur, roots) :
                  /\ KeyOf(T, a) \in DOMAIN T.nodeCache
                  /\ T.nodeCache[KeyOf(T, a)] = a
            /\ Range(T.nodeCache) = Live(Cur, roots)

\* C7: create ends in an error, registers nothing and consumes no id whenever
\* one of the four children is not at level - 1.
C7_CreateRejectsMismatch ==
    \A level \in 1 .. MaxLevel, q \in Quads :
        (\E i \in 1 .. 4 : nodes[q[i]].level # level - 1) =>
            create(Cur, level, q[1], q[2], q[3], q[4]) = Err(Cur)

\* C8: every node of level k >= 1 has four non-null children at level k - 1.
C8_ChildLevels ==
    \A a \in Held :
        nodes[a].level >= 1 =>
            \A i \in 1 .. 4 :
                /\ Kids(nodes[a])[i] # Null
                /\ nodes[Kids(nodes[a])[i]].level = nodes[a].level - 1

\* C9: a leaf has population 0 or 1, a node of level >= 1 the sum of its four
\* children's populations; every node has as population the number of live
\* cells getCell reads in its region; the empty nodes have population 0.
C9_Population ==
    /\ \A a \in Held :
          /\ nodes[a].level = 0 => nodes[a].population \in {0, 1}
          /\ nodes[a].level >= 1 =>
                nodes[a].population = nodes[nodes[a].nw].population
                                        + nodes[nodes[a].ne].population
                                        + nodes[nodes[a].sw].population
                                        + nodes[nodes[a].se].population
          /\ nodes[a].population = Cardinality(CellsOf(Cur, a))
    /\ \A l \in DOMAIN emptyNodeCache : nodes[emptyNodeCache[l]].population = 0

\* C10: there is at most one live leaf instance and one dead leaf instance,
\* and createLeaf returns it, whatever was collected before.
C10_LeafSingletons ==
    /\ \A a \in Held, b \in Held :
          (nodes[a].level = 0 /\ nodes[b].level = 0
              /\ nodes[a].population = nodes[b].population) => a = b
    /\ Cardinality({a \in Held : nodes[a].level = 0}) <= 2
    /\ \A a \in Held :
          nodes[a].level = 0 => createLeaf(Cur, nodes[a].population > 0) = Ok(Cur, a)

\* C11: for every level L, empty(L) called again after a collectGarbage with
\* any roots returns the instance the call before it returned, a node of
\* level L with population 0 and no live cell.
C11_EmptyShared ==
    \A L \in 0 .. MaxLevel, roots \in Roots :
        LET r1 == empty(Cur, L)
            r2 == empty(collectGarbage(r1.S, roots).S, L)
        IN  /\ r1.ok
            /\ r2.ok
            /\ r2.r = r1.r
            /\ r2.S.nodes[r2.r].level = L
            /\ r2.S.nodes[r2.r].population = 0
            /\ CellsOf(r2.S, r2.r) = {}

\* The cells of a node's region, [0, 2^level) x [0, 2^level).
Region(a) == Grid(nodes[a].level)

\* C12: for every node, every cell of its region and every value v, setCell
\* returns a node in which getCell reads v at that cell.
C12_GetAfterSet ==
    \A a \in Held, v \in BOOLEAN :
        \A c \in Region(a) :
            LET r == setCell(Cur, a, c[1], c[2], v)
            IN  /\ r.ok
                /\ getCell(r.S, r.r, c[1], c[2]) = v

\* The quadrant of a node of the given level that contains (x, y), as an index
\* into Kids, and the coordinates of (x, y) inside that quadrant.
QuadrantOf(level, x, y) ==
    IF x < Pow2(level - 1) THEN (IF y < Pow2(level - 1) THEN 1 ELSE 3)
    ELSE (IF y < Pow2(level - 1) THEN 2 ELSE 4)

Inside(level, x, y) ==
    <<IF x < Pow2(level - 1) THEN x ELSE x - Pow2(level - 1),
      IF y < Pow2(level - 1) THEN y ELSE y - Pow2(level - 1)>>

\* Along the descent to (x, y), node m differs from node n at most in the
\* quadrant that contains (x, y): the other three are the same instances.
RECURSIVE SameOffPath(_, _, _, _, _)
SameOffPath(S, n, m, x, y) ==
    LET a == S.nodes[n]
        b == S.nodes[m]
        q == QuadrantOf(a.level, x, y)
        p == Inside(a.level, x, y)
    IN  /\ a.level = b.level
        /\ a.level > 0 =>
              /\ \A i \in (1 .. 4) \ {q} : Kids(a)[i] = Kids(b)[i]
              /\ SameOffPath(S, Kids(a)[q], Kids(b)[q], p[1], p[2])

\* C13: setCell changes the addressed cell only: every other cell of the
\* region reads as before, the level is the same, and off the path to the
\* cell the children are the same instances.
C13_SetCellFrame ==
    \A a \in Held, v \in BOOLEAN :
        \A c \in Region(a) :
            LET r == setCell(Cur, a, c[1], c[2], v)
            IN  /\ r.ok
                /\ r.S.nodes[r.r].level = nodes[a].level
                /\ \A d \in Region(a) \ {c} :
                      getCell(r.S, r.r, d[1], d[2]) = getCell(Cur, a, d[1], d[2])
                /\ SameOffPath(r.S, a, r.r, c[1], c[2])

\* C14: setting a cell to the value it has returns the node itself and
\* leaves the store as it was.
C14_SetSameValue ==
    \A a \in Held :
        \A c \in Region(a) :
            setCell(Cur, a, c[1], c[2], getCell(Cur, a, c[1], c[2])) = Ok(Cur, a)

\* C15: setting a cell to a and then to b gives the node (same id) that
\* setting it to b alone gives.
C15_SetTwice ==
    \A a \in Held, v \in BOOLEAN, w \in BOOLEAN :
        \A c \in Region(a) :
            LET r1 == setCell(Cur, a, c[1], c[2], v)
                r2 == setCell(r1.S, r1.r, c[1], c[2], w)
                r3 == setCell(r2.S, a, c[1], c[2], w)
            IN  /\ r1.ok
                /\ r2.ok
                /\ r3.ok
                /\ r3.r = r2.r
                /\ r3.S.nodes[r3.r].id = r3.S.nodes[r2.r].id

\* Coordinates around the region of a level, one step beyond it on each side.
Around(level) == (-1 .. Pow2(level)) \X (-1 .. Pow2(level))

\* C16: setCell with x or y outside [0, 2^level) ends in an error and leaves
\* the store as it was, at every level, level 0 included.
C16_SetCellBounds ==
    \A a \in Held, v \in BOOLEAN :
        \A c \in Around(nodes[a].level) \ Region(a) :
            setCell(Cur, a, c[1], c[2], v) = Err(Cur)

\* The state of the leaf reached from a node by descending, at each level, into
\* the quadrant that contains (x, y).
RECURSIVE LeafAt(_, _, _, _)
LeafAt(S, n, x, y) ==
    IF S.nodes[n].level = 0 THEN S.nodes[n].population > 0
    ELSE LeafAt(S, Kids(S.nodes[n])[QuadrantOf(S.nodes[n].level, x, y)],
                Inside(S.nodes[n].level, x, y)[1], Inside(S.nodes[n].level, x, y)[2])

\* C17: getCell reads false outside [0, 2^level), at every level, level 0
\* included, and inside it the state of the leaf the descent reaches.
C17_GetCellBounds ==
    \A a \in Held :
        /\ \A c \in Around(nodes[a].level) \ Region(a) : getCell(Cur, a, c[1], c[2]) = FALSE
        /\ \A c \in Region(a) : getCell(Cur, a, c[1], c[2]) = LeafAt(Cur, a, c[1], c[2])

\* C18: for a node of level L >= 1, expand returns a node that reads at
\* (x + 2^(L-1), y + 2^(L-1)) what the node reads at (x, y), reads dead
\* everywhere else, and has the same population.
C18_ExpandCentred ==
    \A a \in Held :
        nodes[a].level >= 1 =>
            LET r == expand(Cur, a)
                h == Pow2(nodes[a].level - 1)
            IN  /\ r.ok
                /\ CellsOf(r.S, r.r) = {<<c[1] + h, c[2] + h>> : c \in CellsOf(Cur, a)}
                /\ r.S.nodes[r.r].population = nodes[a].population

\* C19: expand returns a node one level above its argument, at every level,
\* level 0 included.
C19_ExpandLevel ==
    \A a \in Held :
        LET r == expand(Cur, a)
        IN  /\ r.ok
            /\ r.S.nodes[r.r].level = nodes[a].level + 1

\* C20: step on a well-formed grid of level k in 2..4 returns a node of level
\* k - 1, and every call step makes on itself is on a node of level k - 1, so
\* the recursion reaches level 2, where step makes no call on itself.
C20_StepTerminates ==
    last.op = "step" =>
        /\ WellFormed(Cur, last.arg)
        /\ last.ok
        /\ nodes[last.ret].level = nodes[last.arg].level - 1
        /\ nodes[last.arg].level > 2 =>
              LET f == run(Frame(Cur, last.arg), stepBody)
              IN  /\ f.ok
                  /\ \A i \in DOMAIN stepBody :
                        stepBody[i][2] = "step" =>
                            f.S.nodes[f.v[stepBody[i][3][1]]].level
                                = nodes[last.arg].level - 1

\* A level-4 grid with live cells was stepped: the recursion went through
\* level 3 to level 2.
C20_Witness ==
    /\ last.op = "step"
    /\ last.ok
    /\ last.grid.level = 4
    /\ last.grid.cells # {}
    /\ nodes[last.ret].level = 3

\* C21: once step(n) has returned r for a node of level >= 2, a second
\* step(n) returns r again and adds no node and no interner entry; a node
\* whose result is in the memo gets that result and the store stays as it is.
C21_SecondStepSame ==
    \A a \in Held :
        nodes[a].level >= 2 =>
            /\ LET r1 == step(Cur, a)
                   r2 == step(r1.S, a)
               IN  r1.ok =>
                      /\ r2.ok
                      /\ r2.r = r1.r
                      /\ r2.S.nodes[r2.r].id = r1.S.nodes[r1.r].id
                      /\ Cardinality(DOMAIN r2.S.nodeCache) = Cardinality(DOMAIN r1.S.nodeCache)
                      /\ r2.S.nodes = r1.S.nodes
            /\ nodes[a].level >= 3 /\ nodes[a].id \in DOMAIN cache =>
                  step(Cur, a) = Ok(Cur, cache[nodes[a].id])

\* step has returned for a level-3 node: its result is in the memo, and a
\* level-2 node is held as well.
C21_Witness ==
    /\ \E a \in Held :
          /\ nodes[a].level = 3
          /\ nodes[a].id \in DOMAIN cache
          /\ step(Cur, a).r = cache[nodes[a].id]
    /\ \E b \in Held : nodes[b].level = 2 /\ step(Cur, b).ok

\* C22: step on a node returns the same canonical node (same id) whatever
\* the history: with the memo as earlier calls left it, after a
\* collectGarbage, and after a clearCache.
C22_MemoTransparent ==
    \A a \in Held, roots \in Roots :
        nodes[a].level >= 2 =>
            LET first == step(Cur, a)
                swept == collectGarbage(first.S, roots).S
                warm == step(swept, a)
                cold == step(clearCache(swept).S, a)
            IN  first.ok =>
                   /\ warm.ok
                   /\ cold.ok
                   /\ warm.S.nodes[warm.r].id = first.S.nodes[first.r].id
                   /\ cold.S.nodes[cold.r].id = first.S.nodes[first.r].id

\* C23: step on a node of level 0 or 1 ends in an error and leaves the memo,
\* the interner and the rest of the store as they were.
C23_StepBelowLevel2 ==
    \A a \in Held :
        nodes[a].level < 2 => step(Cur, a) = Err(Cur)

\* A leaf and a level-1 node with a live cell are held, and step fails on
\* both.
C23_Witness ==
    /\ \E a \in Held : nodes[a].level = 0 /\ ~step(Cur, a).ok
    /\ \E a \in Held : nodes[a].level = 1 /\ nodes[a].population > 0 /\ ~step(Cur, a).ok

\* C24: clearCache empties the memo and leaves the interner, the empty-node
\* table, the id counter and the nodes as they are; a step call after it
\* returns the canonical node (same id) that it returned before the clear,
\* whatever step and collectGarbage calls came before.
C24_ClearCacheFrame ==
    /\ clearCache(Cur) = Ok([Cur EXCEPT !.cache = EmptyMap], Null)
    /\ \A a \in Held, roots \in Roots :
          nodes[a].level >= 2 =>
              LET swept == collectGarbage(step(Cur, a).S, roots).S
                  before == step(swept, a)
                  after == step(clearCache(before.S).S, a)
              IN  before.ok =>
                     /\ after.ok
                     /\ after.r = before.r
                     /\ after.S.nodes[after.r].id = before.S.nodes[before.r].id

\* Every node that exists keeps its seven fields in the step taken.
NodesKept ==
    /\ Len(nodes') >= Len(nodes)
    /\ \A a \in 1 .. Len(nodes) : nodes'[a] = nodes[a]

\* C25: no operation changes a field of a node that already exists; the
\* operations only add nodes and change the interner and the memo.
C25_NodesImmutable == [][NodesKept]_vars

\* Nodes were built, step has filled the memo and collectGarbage has dropped
\* a held node from the interner.
C25_Witness ==
    /\ Len(nodes) = MaxNodes
    /\ cache # EmptyMap
    /\ \E a \in Held : a \notin Range(nodeCache)

\* The live cells of an arrangement of nodes of one level: each node of the
\* sequence `at` placed with its origin at the given multiple of 2^level.
Arranged(S, level, at) ==
    UNION {Shift(CellsOf(S, p[1]), p[2] * Pow2(level), p[3] * Pow2(level)) : p \in Range(at)}

\* The window of a level, offset by (dx, dy), of a set of live cells.
WindowAt(live, level, dx, dy) ==
    {c \in Grid(level) : <<c[1] + dx, c[2] + dy>> \in live}

SameLevelWF(S, as, level) ==
    \A a \in as : S.nodes[a].level = level /\ WellFormed(S, a)

\* C26: for well-formed nodes of one level k >= 1, centeredHorizontal(W, E)
\* is the level-k window at (2^(k-1), 0) of W placed left of E,
\* centeredVertical(N, S) the window at (0, 2^(k-1)) of N placed above S, and
\* centeredSubnode(NW, NE, SW, SE) the window at (2^(k-1), 2^(k-1)) of the
\* 2x2 arrangement.
C26_CentredWindows ==
    \A k \in 1 .. MaxLevel :
        LET h == Pow2(k - 1)
        IN  /\ \A w \in Held, e \in Held :
                  SameLevelWF(Cur, {w, e}, k) =>
                     /\ LET r == centeredHorizontal(Cur, w, e)
                        IN  /\ r.ok
                            /\ r.S.nodes[r.r].level = k
                            /\ CellsOf(r.S, r.r)
                                  = WindowAt(Arranged(Cur, k, <<<<w, 0, 0>>, <<e, 1, 0>>>>), k, h, 0)
                     /\ LET r == centeredVertical(Cur, w, e)
                        IN  /\ r.ok
                            /\ r.S.nodes[r.r].level = k
                            /\ CellsOf(r.S, r.r)
                                  = WindowAt(Arranged(Cur, k, <<<<w, 0, 0>>, <<e, 0, 1>>>>), k, 0, h)
            /\ \A nw \in Held, ne \in Held, sw \in Held, se \in Held :
                  SameLevelWF(Cur, {nw, ne, sw, se}, k) =>
                     LET r == centeredSubnode(Cur, nw, ne, sw, se)
                     IN  /\ r.ok
                         /\ r.S.nodes[r.r].level = k
                         /\ CellsOf(r.S, r.r)
                               = WindowAt(Arranged(Cur, k, <<<<nw, 0, 0>>, <<ne, 1, 0>>,
                                                             <<sw, 0, 1>>, <<se, 1, 1>>>>), k, h, h)

\* Two different well-formed level-1 nodes with live cells are held, and the
\* window across their seam is neither of them.
C26_Witness ==
    \E w \in Held, e \in Held :
        /\ w # e
        /\ SameLevelWF(Cur, {w, e}, 1)
        /\ nodes[w].population > 0
        /\ nodes[e].population > 0
        /\ centeredHorizontal(Cur, w, e).r \notin {w, e}
        /\ CellsOf(centeredHorizontal(Cur, w, e).S, centeredHorizontal(Cur, w, e).r) # {}

\* C27: advance on a grid of level k in 2..4 by steps in 0 .. 2^(k-2) returns
\* without error the level k-1 node whose cell (x, y) is cell (x + 2^(k-2),
\* y + 2^(k-2)) of the input after exactly `steps` generations of B3/S23.
C27_AdvanceMatchesReference ==
    last.op = "advance" =>
        LET k == last.grid.level
            ref == LifeGen(last.grid.cells, k, last.steps)
        IN  /\ last.ok
            /\ nodes[last.ret].level = k - 1
            /\ ResultCells = {c \in Grid(k - 1) : <<c[1] + Pow2(k - 2), c[2] + Pow2(k - 2)>> \in ref}

\* C28: for every node n of level k >= 2, advance(n, 0) returns the node of
\* centeredSubnode(n.nw, n.ne, n.sw, n.se): level k - 1, with cell (x, y)
\* equal to cell (x + 2^(k-2), y + 2^(k-2)) of n.
C28_AdvanceZero ==
    \A a \in Held :
        nodes[a].level >= 2 =>
            LET k == nodes[a].level
                r == advance(Cur, a, 0)
            IN  /\ r.ok
                /\ r.r = centeredSubnode(Cur, nodes[a].nw, nodes[a].ne, nodes[a].sw, nodes[a].se).r
                /\ r.S.nodes[r.r].level = k - 1
                /\ CellsOf(r.S, r.r) = WindowAt(CellsOf(Cur, a), k - 1, Pow2(k - 2), Pow2(k - 2))

Block == {<<8, 8>>, <<9, 8>>, <<8, 9>>, <<9, 9>>}

\* C30: advance(expand(n), 1) of a level-4 grid n returns a node of level 4
\* whose cell (x, y) is cell (x, y) of n after one generation of B3/S23.
C30_NoDrift ==
    last.op = "drift" =>
        /\ last.ok
        /\ CellsOf(Cur, last.arg) = last.grid.cells
        /\ nodes[last.ret].level = nodes[last.arg].level
        /\ nodes[last.ret].level = DriftLevel
        /\ ResultCells = LifeGen(last.grid.cells, DriftLevel, 1)

\* The block at (8,8), (9,8), (8,9), (9,9) went through expand and advance
\* and is found at those coordinates.
C30_Witness ==
    /\ last.op = "drift"
    /\ last.ok
    /\ last.grid.cells = Block
    /\ ResultCells = Block

\* The block and the blinker of the evaluator's tests, at the centre of a
\* level-4 grid.
CentreBlock == {<<7, 7>>, <<8, 7>>, <<7, 8>>, <<8, 8>>}

CentreBlinker == {<<8, 7>>, <<8, 8>>, <<8, 9>>}

\* C31: step on a level-4 grid holding only the centre block, or only the
\* centre blinker, returns a level-3 node whose live cells are those of the
\* input moved by (-4, -4) and no other: the block at (3,3), (4,3), (3,4),
\* (4,4), the blinker at (4,3), (4,4), (4,5).
C31_StillLifeAndBlinker ==
    /\ last.op = "step" /\ last.grid.level = 4 /\ last.grid.cells = CentreBlock =>
          /\ last.ok
          /\ nodes[last.ret].level = 3
          /\ ResultCells = {<<3, 3>>, <<4, 3>>, <<3, 4>>, <<4, 4>>}
    /\ last.op = "step" /\ last.grid.level = 4 /\ last.grid.cells = CentreBlinker =>
          /\ last.ok
          /\ nodes[last.ret].level = 3
          /\ ResultCells = {<<4, 3>>, <<4, 4>>, <<4, 5>>}
    /\ last.op = "step" /\ last.grid.level = 4
          /\ last.grid.cells \in {CentreBlock, CentreBlinker} =>
          ResultCells = Shift(CellsOf(Cur, last.arg), -4, -4)

\* The centre blinker was stepped, and the result is a level-3 node with
\* three live cells.
C31_Witness ==
    /\ last.op = "step"
    /\ last.ok
    /\ last.grid.level = 4
    /\ last.grid.cells = CentreBlinker
    /\ nodes[last.ret].population = 3
    /\ ResultCells # {}

\* What setCell should add to the population: the new value of the cell
\* minus its old value.
CellDelta(old, new) == (IF new THEN 1 ELSE 0) - (IF old THEN 1 ELSE 0)

\* C32: for every node, every cell of its region and every value v, setCell
\* returns a node whose population is that of the node plus 1 if a dead cell
\* was set alive, minus 1 if a live cell was set dead, and the same otherwise.
C32_SetCellPopulation ==
    \A a \in Held, v \in BOOLEAN :
        \A c \in Region(a) :
            LET r == setCell(Cur, a, c[1], c[2], v)
            IN  /\ r.ok
                /\ r.S.nodes[r.r].population
                      = nodes[a].population + CellDelta(getCell(Cur, a, c[1], c[2]), v)

\* The reading of a cleaned text as run-length tokens: the text up to its
\* first "!", every tag with the count written before it, a tag without a
\* count standing for one.  `seen` tells whether a digit came since the last
\* tag.
RECURSIVE Unfold(_, _, _, _)
Unfold(t, i, n, seen) ==
    IF i > Len(t) \/ t[i] = "!" THEN <<>>
    ELSE IF IsDigit(t[i]) THEN Unfold(t, i + 1, (IF seen THEN n ELSE 0) * 10 + DigitValue(t[i]), TRUE)
    ELSE [k \in 1 .. (IF seen THEN n ELSE 1) |-> t[i]] \o Unfold(t, i + 1, 0, FALSE)

\* The live cells of an unfolded text: every "o" at its column in its row,
\* the row being the number of "$" before it and the column the number of
\* tags since the last of them.
Row(u, k) == Cardinality({j \in 1 .. k - 1 : u[j] = "$"})

Col(u, k) ==
    LET breaks == {0} \cup {j \in 1 .. k - 1 : u[j] = "$"}
    IN  k - 1 - (CHOOSE j \in breaks : \A i \in breaks : i <= j)

CellsOfTags(u) == {<<Col(u, k), Row(u, k)>> : k \in {j \in DOMAIN u : u[j] = "o"}}

\* C33: parseRLE returns the cells of the cleaned text read as run-length
\* tokens: a count N before a tag (1 when there is none) makes "o" N live
\* cells in a row, "b" N columns, "$" N rows, and nothing after the first "!"
\* counts; "bob$2bo$3o!" gives (1,0), (2,1), (0,2), (1,2), (2,2).
C33_RunLength ==
    /\ last.op = "parseRLE" =>
          /\ Range(last.ret) = CellsOfTags(Unfold(cleanRle(last.arg), 1, 0, FALSE))
          /\ Len(last.ret) = Cardinality(Range(last.ret))
    /\ last.op = "parseRLE" /\ last.arg \in {GliderRle, GliderPattern} =>
          /\ Range(last.ret) = {<<1, 0>>, <<2, 1>>, <<0, 2>>, <<1, 2>>, <<2, 2>>}
          /\ Len(last.ret) = 5

\* C34: for every node n of level >= 1, expand(n) returns e whose centre,
\* centeredSubnode(e.nw, e.ne, e.sw, e.se), is the instance n itself, and
\* whose children hold the children of n in their inner corners and one and
\* the same empty node in their other three quadrants.
C34_ExpandCentreIsNode ==
    \A a \in Held :
        nodes[a].level >= 1 =>
            LET e == expand(Cur, a)
                n == nodes[a]
                en == e.S.nodes[e.r]
                c == centeredSubnode(e.S, en.nw, en.ne, en.sw, en.se)
            IN  /\ e.ok
                /\ c.ok
                /\ c.r = a
                /\ c.S.nodes[c.r].id = n.id
                /\ e.S.nodes[en.nw].se = n.nw
                /\ e.S.nodes[en.ne].sw = n.ne
                /\ e.S.nodes[en.sw].ne = n.sw
                /\ e.S.nodes[en.se].nw = n.se
                /\ \E z \in Addrs(e.S) :
                      /\ e.S.nodes[z].level = n.level - 1
                      /\ e.S.nodes[z].population = 0
                      /\ \A q \in {<<en.nw, "se">>, <<en.ne, "sw">>, <<en.sw, "ne">>, <<en.se, "nw">>} :
                            \A f \in {"nw", "ne", "sw", "se"} \ {q[2]} : e.S.nodes[q[1]][f] = z

\* No two node instances carry the same id, every id was issued before the
\* counter's value, and a memo entry is keyed by the id of one instance, whose
\* result it holds.
IdsUnique ==
    /\ \A a \in Held, b \in Held : nodes[a].id = nodes[b].id => a = b
    /\ \A a \in Held : nodes[a].id < nextId
    /\ \A id \in DOMAIN cache :
          /\ Cardinality({a \in Held : nodes[a].id = id}) = 1
          /\ cache[id] \in Held
          /\ \A a \in Held : nodes[a].id = id => nodes[cache[id]].level = nodes[a].level - 1

\* C35: the id counter only increases, whatever the operation, collectGarbage
\* included, and in every reachable state no two node instances, interned,
\* swept or held by the memo, carry the same id, so a memo entry belongs to
\* one node only.
C35_IdsUniqueForEver == []IdsUnique /\ [][nextId' >= nextId]_vars

\* A node that collectGarbage swept is still held, and its content was built
\* again as another instance, with a later id.
C35_Witness ==
    /\ Len(nodes) = MaxNodes
    /\ \E a \in Held, b \in Held :
          /\ a # b
          /\ a \notin Range(nodeCache)
          /\ b \in Range(nodeCache)
          /\ KeyOf(Cur, a) = KeyOf(Cur, b)
          /\ nodes[a].id < nodes[b].id

\* The same calls without the collectGarbage calls, from the empty store:
\* the store, the root and the outcome of the last call made.
\* The call `op` of a run on the root a in the store S.
RootOp(S, a, op) ==
    CASE op[1] = "setCell" -> setCell(S, a, op[2], op[3], op[4])
      [] op[1] = "expand" -> expand(S, a)
      [] op[1] = "step" -> step(S, a)

RECURSIVE Replay(_, _)
Replay(at, hist) ==
    IF hist = <<>> THEN at
    ELSE IF Head(hist)[1] = "collectGarbage" THEN Replay(at, Tail(hist))
    ELSE LET res == RootOp(at.S, at.r, Head(hist))
         IN  Replay([S |-> res.S, ok |-> res.ok, r |-> IF res.ok THEN res.r ELSE at.r],
                    Tail(hist))

WithoutGC ==
    Replay(loadGrid(Store(<<>>, EmptyMap, EmptyMap, 1, EmptyMap), last.grid.level, last.grid.cells),
           last.arg)

\* What a caller reads from a root: its level, its population and the cells
\* getCell returns.
Content(S, a) ==
    [level |-> S.nodes[a].level, population |-> S.nodes[a].population, cells |-> CellsOf(S, a)]

RECURSIVE LiveAt(_, _, _, _)
LiveAt(S, a, ox, oy) ==
    LET n == S.nodes[a]
        half == Pow2(n.level) \div 2
    IN  IF n.population = 0 THEN {}
        ELSE IF n.level = 0 THEN {<<ox, oy>>}
        ELSE LiveAt(S, n.nw, ox, oy) \cup LiveAt(S, n.ne, ox + half, oy)
             \cup LiveAt(S, n.sw, ox, oy + half) \cup LiveAt(S, n.se, ox + half, oy + half)

\* The live cells of a root in world coordinates.
World(S, a) ==
    LiveAt(S, a, -(Pow2(S.nodes[a].level) \div 2), -(Pow2(S.nodes[a].level) \div 2))

\* C37: handleCellToggle(x, y, alive) either fails and leaves the universe
\* root as it was, which happens exactly when the target is outside the root
\* expanded ExpandTries times, or replaces the root by one that contains the
\* target, where world cell (x, y) has the value alive, read at local
\* (x + 2^(level-1), y + 2^(level-1)), and every other world cell is as before.
C37_HandleCellToggle ==
    (last.op = "draw" /\ last.arg # <<>>) =>
        LET x == last.arg[1]
            y == last.arg[2]
            alive == last.arg[3]
            before == last.arg[4]
            level == nodes[last.ret].level
        IN  /\ last.ok <=> inWorld(nodes[before].level + ExpandTries, x, y)
            /\ ~last.ok => last.ret = before
            /\ last.ok =>
                  /\ inWorld(level, x, y)
                  /\ level <= nodes[before].level + ExpandTries
                  /\ getCell(Cur, last.ret, x + Pow2(level - 1), y + Pow2(level - 1)) = alive
                  /\ World(Cur, last.ret) =
                        (World(Cur, before) \ {<<x, y>>})
                            \cup (IF alive THEN {<<x, y>>} ELSE {})
                  /\ nodes[last.ret].population = Cardinality(World(Cur, last.ret))

\* A cell was drawn at a target that the root reached only with its last
\* allowed expansion, and the cells drawn before are still there.
C37_Witness ==
    /\ last.op = "draw"
    /\ last.arg # <<>>
    /\ last.ok
    /\ last.arg[3]
    /\ nodes[last.ret].level = nodes[last.arg[4]].level + ExpandTries
    /\ Cardinality(World(Cur, last.ret)) >= 3

\* A drawing failed: the target was out of reach of the expansions.
DrawFailed ==
    /\ last.op = "draw"
    /\ last.arg # <<>>
    /\ ~last.ok
    /\ nodes[last.ret].population > 0

\* C38: one step of the simulation loop takes a root of level L to level L + 1
\* when auto-expand is on and L <= LevelCap - 2, and to level L otherwise; no
\* step throws, the universe root is never above level LevelCap - 1 and the
\* evaluator is never given a node above level LevelCap.
C38_LoopLevels ==
    (last.op = "loop" /\ last.steps > 0) =>
        /\ last.ok
        /\ nodes[last.ret].level =
              IF last.arg.on /\ nodes[last.arg.before].level <= LevelCap - 2
              THEN nodes[last.arg.before].level + 1
              ELSE nodes[last.arg.before].level
        /\ nodes[last.ret].level <= LevelCap - 1
        /\ last.arg.fed <= LevelCap
        /\ last.arg.fed = nodes[last.ret].level + 1

\* A step with auto-expand on left the root at the level it had, one below
\* the cap, and the universe is not empty.
C38_Witness ==
    /\ last.op = "loop"
    /\ last.steps > 0
    /\ last.arg.on
    /\ nodes[last.arg.before].level = LevelCap - 1
    /\ nodes[last.ret].level = LevelCap - 1
    /\ last.arg.fed = LevelCap
    /\ nodes[last.ret].population > 0

\* What getCell reads from a node of either revision.
Reads(S, a) ==
    [level |-> S.nodes[a].level, population |-> S.nodes[a].population, cells |-> CellsOf(S, a)]

\* C39: run on the same calls, the revision with integer ids and the revision
\* with string ids fail on the same calls, return nodes of the same level,
\* population and cells, and give two results the same id in one exactly when
\* they have the same id in the other.
C39_RevisionsEquivalent ==
    last.op = "twin" =>
        /\ last.ok = last.arg.okH
        /\ \A i \in DOMAIN last.ret :
              Reads(Cur, last.ret[i][1]) = Reads(Twin, last.ret[i][2])
        /\ \A i \in DOMAIN last.ret, j \in DOMAIN last.ret :
              (nodes[last.ret[i][1]].id = nodes[last.ret[j][1]].id)
                  <=> (Twin.nodes[last.ret[i][2]].id = Twin.nodes[last.ret[j][2]].id)

\* The same with every result well formed.
TwinWellFormed ==
    (last.op = "twin" /\ \A i \in DOMAIN last.ret : WellFormed(Cur, last.ret[i][1]))
        => C39_RevisionsEquivalent

====
